---------------------------- MODULE Spec2Model ----------------------------
(***************************************************************************)
(* A model of the parser-combinator engine of src/main.cpp.                *)
(*                                                                         *)
(* A std::string is a sequence of one-character strings.  A Parser (a      *)
(* std::function closure) is a record naming the lambda it holds and the   *)
(* values that lambda captured; Call applies it to a source text.  A call  *)
(* that does not return is given the status "Hang" (a loop that never      *)
(* exits) or "Throw" (std::bad_function_call of an empty std::function).   *)
(***************************************************************************)
EXTENDS Naturals, Sequences, FiniteSets, TLC

\* Bounds of the model.
MaxLen == 3      \* longest source text drawn over Alphabet
MaxList == 3     \* longest vector<Parser> handed to sequence / choice
MaxBuild == 2    \* combinators applied on top of a primitive parser
MaxNest == 2     \* deepest nesting of the parenthesised source texts
MaxRule == 1     \* combinators applied before the slot `expression` is defined

Alphabet == {"(", ")", "a"}
WhiteChars == <<" ">>
Names == {"x"}
Words == {<<"a", "a">>, <<"a", ")">>}

VARIABLES
    expression,  \* the slot `Parser expression` that refParser refers to
    parser,      \* the parser built so far
    parsers,     \* the vector handed to the last sequence / choice call
    built,       \* number of combinators applied so far
    pc,          \* "new", "build", "ready", "call", "test", "done"
    source,      \* the text the parser is applied to
    matched,     \* many / many1: local `matched`
    input,       \* many / many1: local `input`
    items,       \* many: local `items`
    result       \* the Result of the last call (of `parser`, or inside the loop)

vars == <<expression, parser, parsers, built, pc, source, matched, input, items, result>>

-----------------------------------------------------------------------------
(* Result and ResultItem                                                   *)

\* ResultItem{name, string}: variant index 0
Leaf(name, value) == [name |-> name, index |-> 0, text |-> value, children |-> <<>>]

\* ResultItem{name, vector<ResultItem>}: variant index 1
Node(name, value) == [name |-> name, index |-> 1, text |-> <<>>, children |-> value]

Result(status, m, rest, error) ==
    [status |-> status, matched |-> m, rest |-> rest, error |-> error, results |-> <<>>]

failure(error) == Result("Failure", <<>>, <<>>, error)

success(m, rest) == Result("Success", m, rest, <<>>)

isFailure(r) == r.status = "Failure"

isSuccess(r) == r.status = "Success"

\* (mutant) add without the test `value.size() > 0`
addTextAlways(r, name, value) == [r EXCEPT !.results = Append(@, Leaf(name, value))]

\* Result::add(string name, string value)
addText(r, name, value) ==
    IF Len(value) > 0
    THEN [r EXCEPT !.results = Append(@, Leaf(name, value))]
    ELSE r

\* Result::add(string name, ResultMap value)
addItems(r, name, value) == [r EXCEPT !.results = Append(@, Node(name, value))]

combine(r, other) == [r EXCEPT !.results = @ \o other.results]

\* A call that never hands a Result back to its caller.
Hang == Result("Hang", <<>>, <<>>, <<>>)

Throw == Result("Throw", <<>>, <<>>, <<>>)

Returns(r) == r.status \in {"Success", "Failure"}

-----------------------------------------------------------------------------
(* Parsers: the closures the combinators return                            *)

Closure(fn, ch, name, kids) == [fn |-> fn, ch |-> ch, name |-> name, kids |-> kids]

\* A default-constructed std::function.
Empty == Closure("empty", "", "", <<>>)

parseChar(ch) == Closure("parseChar", ch, "", <<>>)

andThen(parser1, parser2) == Closure("andThen", "", "", <<parser1, parser2>>)

orElse(parser1, parser2) == Closure("orElse", "", "", <<parser1, parser2>>)

\* reducer and mapper are functions of the program, handed over by name
reduce(ps, reducer) ==
    LET acc[i \in 1..Len(ps)] ==
            IF i = 1
            THEN ps[1]
            ELSE IF reducer = "andThen"
                 THEN andThen(acc[i - 1], ps[i])
                 ELSE orElse(acc[i - 1], ps[i])
    IN  acc[Len(ps)]

mapWith(value, mapper) ==
    [i \in 1..Len(value) |-> IF mapper = "parseChar" THEN parseChar(value[i]) ELSE Empty]

choice(ps) == reduce(ps, "orElse")

anyOf(value) == choice(mapWith(value, "parseChar"))

parseString(value) == reduce(mapWith(value, "parseChar"), "andThen")

sequence(ps) == reduce(ps, "andThen")

nullParser == Closure("nullParser", "", "", <<>>)

opt(p) == choice(<<p, nullParser>>)

many(p) == Closure("many", "", "", <<p>>)

many1(p) == Closure("many1", "", "", <<p>>)

takeLeft(parser1, parser2) == Closure("takeLeft", "", "", <<parser1, parser2>>)

mapTo(p, name) == Closure("mapTo", "", name, <<p>>)

listOf(ws, p, separator) ==
    LET separatorParser == parseChar(separator)
    IN  sequence(<<
            mapTo(opt(sequence(<<ws, p>>)), "item"),
            many(sequence(<<ws, separatorParser, ws, p>>))
        >>)

\* refParser(expression): the lambda captures the slot, not its value.
refParser == Closure("refParser", "", "", <<>>)

whiteSpace == opt(many(anyOf(WhiteChars)))

\* "(" expression ")": a rule that refers to the slot before it is defined.
\* The three whiteSpace entries of the vector are left out: the rule is the
\* one applied to texts without blanks.
parenExp == sequence(<<parseChar("("), refParser, parseChar(")")>>)

-----------------------------------------------------------------------------
(* The lambdas: what a call of each closure does.  A callee that does not  *)
(* return ("Hang", "Throw") is neither a Success nor a Failure, and its    *)
(* caller does not return either.                                          *)

RECURSIVE Call(_, _)

parseCharFn(ch, src) ==
    IF Len(src) = 0
    THEN failure(<<"End of imput stream.">>)
    ELSE LET firstChar == src[1]
         IN  IF firstChar = ch
             THEN success(<<firstChar>>, SubSeq(src, 2, Len(src)))
             ELSE failure(<<"Expected '", ch, "' but got '", firstChar, "'">>)

\* (mutant) the Success holds result2.matched alone
andThenDropsFirst(parser1, parser2, src) ==
    LET result1 == Call(parser1, src)
    IN  IF result1.status # "Success"
        THEN result1
        ELSE LET result2 == Call(parser2, result1.rest)
             IN  IF result2.status # "Success"
                 THEN result2
                 ELSE combine(
                          combine(success(result2.matched, result2.rest), result1),
                          result2)

andThenFn(parser1, parser2, src) ==
    LET result1 == Call(parser1, src)
    IN  IF result1.status # "Success"
        THEN result1
        ELSE LET result2 == Call(parser2, result1.rest)
             IN  IF result2.status # "Success"
                 THEN result2
                 ELSE combine(
                          combine(
                              success(result1.matched \o result2.matched, result2.rest),
                              result1),
                          result2)

\* (mutant) when both alternatives fail, the first failure is returned
orElseKeepsFirstError(parser1, parser2, src) ==
    LET result1 == Call(parser1, src)
    IN  IF result1.status # "Failure"
        THEN result1
        ELSE LET result2 == Call(parser2, src)
             IN  IF result2.status = "Failure" THEN result1 ELSE result2

orElseFn(parser1, parser2, src) ==
    LET result1 == Call(parser1, src)
    IN  IF result1.status # "Failure"
        THEN result1
        ELSE Call(parser2, src)

nullParserFn(src) == success(<<>>, src)

\* One pass of the body of many's while loop, after `result = parser(input)`.
\* loop = [matched, input, items]; the pass returns the loop's next state, or
\* leaves through `return`.
\* (mutant) many fails when nothing was matched, as many1 does
manyReturnNeedsMatch(loop) ==
    IF Len(loop.matched) = 0
    THEN failure(<<"no match">>)
    ELSE [success(loop.matched, loop.input) EXCEPT !.results = loop.items]

manyReturn(loop) == [success(loop.matched, loop.input) EXCEPT !.results = loop.items]

manyNext(loop, res) ==
    [matched |-> loop.matched \o res.matched,
     input   |-> res.rest,
     items   |-> IF Len(res.results) > 0
                 THEN Append(loop.items, Node("item", res.results))
                 ELSE loop.items]

RECURSIVE manyLoop(_, _)
manyLoop(p, loop) ==
    LET res == Call(p, loop.input)
    IN  IF res.status = "Failure" THEN manyReturn(loop)
        ELSE IF res.status # "Success" THEN res
        \* parser is a pure function: an iteration that leaves `input` as it
        \* was is followed by the same iteration, for ever.
        ELSE IF res.rest = loop.input THEN Hang
        ELSE manyLoop(p, manyNext(loop, res))

manyFn(p, src) == manyLoop(p, [matched |-> <<>>, input |-> src, items |-> <<>>])

\* (mutant) many1 without the test `matched.length() == 0`
many1ReturnAlways(loop, res) == success(loop.matched, loop.input)

\* The same for many1, whose loop keeps no items.
many1Return(loop, res) ==
    IF Len(loop.matched) = 0
    THEN res
    ELSE success(loop.matched, loop.input)

many1Next(loop, res) ==
    [matched |-> loop.matched \o res.matched,
     input   |-> res.rest,
     items   |-> loop.items]

RECURSIVE many1Loop(_, _)
many1Loop(p, loop) ==
    LET res == Call(p, loop.input)
    IN  IF res.status = "Failure" THEN many1Return(loop, res)
        ELSE IF res.status # "Success" THEN res
        ELSE IF res.rest = loop.input THEN Hang
        ELSE many1Loop(p, many1Next(loop, res))

many1Fn(p, src) == many1Loop(p, [matched |-> <<>>, input |-> src, items |-> <<>>])

takeLeftFn(parser1, parser2, src) ==
    LET result1 == Call(parser1, src)
    IN  IF result1.status \in {"Hang", "Throw"}
        THEN result1
        ELSE Call(parser1, result1.rest)

\* (mutant) the node is added to p's own Result, beside p's nodes
mapToKeepsNodes(p, name, src) ==
    LET res == Call(p, src)
    IN  IF res.status = "Success"
        THEN IF Len(res.results) = 0
             THEN addText(res, name, res.matched)
             ELSE addItems(res, name, res.results)
        ELSE res

mapToFn(p, name, src) ==
    LET res == Call(p, src)
    IN  IF res.status = "Success"
        THEN IF Len(res.results) = 0
             THEN addText(res, name, res.matched)
             ELSE addItems(success(res.matched, res.rest), name, res.results)
        ELSE res

\* (mutant) [reference] instead of [&reference]: the lambda holds the value the
\* slot had when refParser was called, a Parser not yet defined
refParserByValue(reference, src) == Call(Empty, src)

refParserFn(reference, src) == Call(reference, src)

Call(p, src) ==
    CASE p.fn = "parseChar"  -> parseCharFn(p.ch, src)
      [] p.fn = "andThen"    -> andThenFn(p.kids[1], p.kids[2], src)
      [] p.fn = "orElse"     -> orElseFn(p.kids[1], p.kids[2], src)
      [] p.fn = "nullParser" -> nullParserFn(src)
      [] p.fn = "many"       -> manyFn(p.kids[1], src)
      [] p.fn = "many1"      -> many1Fn(p.kids[1], src)
      [] p.fn = "takeLeft"   -> takeLeftFn(p.kids[1], p.kids[2], src)
      [] p.fn = "mapTo"      -> mapToFn(p.kids[1], p.name, src)
      [] p.fn = "refParser"  -> refParserFn(expression, src)
      [] p.fn = "empty"      -> Throw


-----------------------------------------------------------------------------
(* Source texts and parser vectors the model draws from                    *)

Strings(S, lo, hi) == UNION {[1..k -> S] : k \in lo..hi}

\* n opening parentheses, an 'a', n closing parentheses
Nested(n) ==
    [i \in 1..(2 * n + 1) |-> IF i <= n THEN "(" ELSE IF i = n + 1 THEN "a" ELSE ")"]

\* the text with a blank in front of every character
Spaced(s) == [i \in 1..(2 * Len(s)) |-> IF i % 2 = 1 THEN " " ELSE s[i \div 2]]

Inputs ==
    Strings(Alphabet, 0, MaxLen)
        \cup {Nested(n) : n \in 0..MaxNest}
        \cup {Spaced(Nested(n)) : n \in 0..MaxNest}

Operands == {parseChar("a")}

\* the vectors of at most MaxList parsers that start or end with p
Vectors(p) ==
    {<<p>> \o qs : qs \in Strings(Operands, 0, MaxList - 1)}
        \cup {qs \o <<p>> : qs \in Strings(Operands, 0, MaxList - 1)}

NoResult == Result("None", <<>>, <<>>, <<>>)

-----------------------------------------------------------------------------
(* The program: build a grammar, define the slot, apply the parser         *)

Init ==
    /\ expression = Empty
    /\ parser = Empty
    /\ parsers = <<>>
    /\ built = 0
    /\ pc = "new"
    /\ source = <<>>
    /\ matched = <<>>
    /\ input = <<>>
    /\ items = <<>>
    /\ result = NoResult

New(p) ==
    /\ pc = "new"
    /\ parser' = p
    /\ pc' = "build"
    /\ UNCHANGED <<expression, parsers, built, source, matched, input, items, result>>

NewParseChar == \E ch \in Alphabet : New(parseChar(ch))

NewNullParser == New(nullParser)

NewParseString == \E value \in Words : New(parseString(value))

NewAnyOf == \E value \in Words : New(anyOf(value))

NewParenExp == New(parenExp)

Wrap(p, ps) ==
    /\ pc \in {"build", "ready"}
    /\ built < MaxBuild
    /\ parser' = p
    /\ parsers' = ps
    /\ built' = built + 1
    /\ UNCHANGED <<expression, pc, source, matched, input, items, result>>

MkSequence == \E ps \in Vectors(parser) : Wrap(sequence(ps), ps)

MkChoice == \E ps \in Vectors(parser) : Wrap(choice(ps), ps)

\* opt hands the vector {parser, nullParser()} to choice
MkOpt == Wrap(opt(parser), <<parser, nullParser>>)

MkMany == Wrap(many(parser), <<>>)

MkMany1 == Wrap(many1(parser), <<>>)

MkTakeLeft == \E parser2 \in Operands : Wrap(takeLeft(parser, parser2), <<>>)

MkMapTo == \E name \in Names : Wrap(mapTo(parser, name), <<>>)

\* listOf is applied to parsers built once the slot is defined (line 427)
MkListOf ==
    /\ pc = "ready"
    /\ \E separator \in Alphabet : Wrap(listOf(whiteSpace, parser, separator), <<>>)

\* Parser expression = ...;  parsers built before it refer to the slot through
\* refParser, parsers built after it may also hold its value
Define ==
    /\ pc = "build"
    /\ built <= MaxRule
    /\ expression' = parser
    /\ pc' = "ready"
    /\ UNCHANGED <<parser, parsers, built, source, matched, input, items, result>>

Return(src, res) ==
    /\ source' = src
    /\ result' = res
    /\ pc' = "done"
    /\ UNCHANGED <<expression, parser, parsers, built, matched, input, items>>

ApplyParseChar ==
    /\ pc = "ready" /\ parser.fn = "parseChar"
    /\ \E src \in Inputs : Return(src, parseCharFn(parser.ch, src))

ApplyAndThen ==
    /\ pc = "ready" /\ parser.fn = "andThen"
    /\ \E src \in Inputs : Return(src, andThenFn(parser.kids[1], parser.kids[2], src))

ApplyOrElse ==
    /\ pc = "ready" /\ parser.fn = "orElse"
    /\ \E src \in Inputs : Return(src, orElseFn(parser.kids[1], parser.kids[2], src))

ApplyNullParser ==
    /\ pc = "ready" /\ parser.fn = "nullParser"
    /\ \E src \in Inputs : Return(src, nullParserFn(src))

ApplyTakeLeft ==
    /\ pc = "ready" /\ parser.fn = "takeLeft"
    /\ \E src \in Inputs : Return(src, takeLeftFn(parser.kids[1], parser.kids[2], src))

ApplyMapTo ==
    /\ pc = "ready" /\ parser.fn = "mapTo"
    /\ \E src \in Inputs : Return(src, mapToFn(parser.kids[1], parser.name, src))

\* many / many1 run their loop one pass at a time
loop == [matched |-> matched, input |-> input, items |-> items]

Enter(fn) ==
    /\ pc = "ready" /\ parser.fn = fn
    /\ \E src \in Inputs :
        /\ source' = src
        /\ input' = src
    /\ matched' = <<>>
    /\ items' = <<>>
    /\ pc' = "call"
    /\ UNCHANGED <<expression, parser, parsers, built, result>>

\* result = parser(input); a call that does not return ends the run
Pass(fn) ==
    /\ pc = "call" /\ parser.fn = fn
    /\ result' = Call(parser.kids[1], input)
    /\ pc' = IF Returns(result') THEN "test" ELSE "done"
    /\ UNCHANGED <<expression, parser, parsers, built, source, matched, input, items>>

Leave(fn, res) ==
    /\ pc = "test" /\ parser.fn = fn
    /\ isFailure(result)
    /\ result' = res
    /\ pc' = "done"
    /\ UNCHANGED <<expression, parser, parsers, built, source, matched, input, items>>

Again(fn, next) ==
    /\ pc = "test" /\ parser.fn = fn
    /\ ~isFailure(result)
    /\ matched' = next.matched
    /\ input' = next.input
    /\ items' = next.items
    /\ pc' = "call"
    /\ UNCHANGED <<expression, parser, parsers, built, source, result>>

ManyEnter == Enter("many")

ManyCall == Pass("many")

ManyReturn == Leave("many", manyReturn(loop))

ManyAgain == Again("many", manyNext(loop, result))

Many1Enter == Enter("many1")

Many1Call == Pass("many1")

Many1Return == Leave("many1", many1Return(loop, result))

Many1Again == Again("many1", many1Next(loop, result))

Next ==
    \/ NewParseChar \/ NewNullParser \/ NewParseString \/ NewAnyOf \/ NewParenExp
    \/ MkSequence \/ MkChoice \/ MkOpt \/ MkMany \/ MkMany1
    \/ MkTakeLeft \/ MkMapTo \/ MkListOf
    \/ Define
    \/ ApplyParseChar \/ ApplyAndThen \/ ApplyOrElse \/ ApplyNullParser
    \/ ApplyTakeLeft \/ ApplyMapTo
    \/ ManyEnter \/ ManyCall \/ ManyReturn \/ ManyAgain
    \/ Many1Enter \/ Many1Call \/ Many1Return \/ Many1Again

Spec == Init /\ [][Next]_vars

\* The runs of many and many1 alone, from the states of Spec in which the
\* slot was defined as a primitive parser q and many(p) or many1(p) was then
\* built over p = q, opt(q) or many(q).  The program runs on: a step of the
\* loop that can be taken is taken.
LoopInit ==
    \E q \in {parseChar(ch) : ch \in Alphabet} \cup {nullParser} :
        \E depth \in 1..2 :
            \E p \in (IF depth = 1 THEN {q} ELSE {opt(q), many(q)}) :
                /\ expression = q
                /\ parser \in {many(p), many1(p)}
                /\ parsers = <<>>
                /\ built = depth
                /\ pc = "ready"
                /\ source = <<>>
                /\ matched = <<>>
                /\ input = <<>>
                /\ items = <<>>
                /\ result = NoResult

LoopNext ==
    \/ ManyEnter \/ ManyCall \/ ManyReturn \/ ManyAgain
    \/ Many1Enter \/ Many1Call \/ Many1Return \/ Many1Again

LoopSpec == LoopInit /\ [][LoopNext]_vars /\ WF_vars(LoopNext)

-----------------------------------------------------------------------------
(* Which fields of which Results a call reads                              *)

\* TRUE iff the call of p on src reads matched, rest or results of a Result
\* whose status is Failure.  Each lambda is followed line by line.
RECURSIVE ReadsFailure(_, _)

RECURSIVE LoopReads(_, _)
\* many (214-225) and many1 (238-247): result.matched, result.rest and
\* result.results are read in the else branch of `if (result.isFailure())`.
LoopReads(p, in) ==
    LET res == Call(p, in)
    IN  \/ ReadsFailure(p, in)
        \/ /\ res.status = "Success"
           /\ res.rest # in
           /\ LoopReads(p, res.rest)

ReadsFailure(p, src) ==
    CASE p.fn = "parseChar"  -> FALSE
      [] p.fn = "nullParser" -> FALSE
      [] p.fn = "empty"      -> FALSE
      \* 124-136: result1.rest is read after `if (result1.isFailure()) return`,
      \* the other fields after `if (result2.isFailure())` as well
      [] p.fn = "andThen"    ->
            LET result1 == Call(p.kids[1], src)
            IN  \/ ReadsFailure(p.kids[1], src)
                \/ /\ result1.status = "Success"
                   /\ ReadsFailure(p.kids[2], result1.rest)
      \* 145-152: no field is read
      [] p.fn = "orElse"     ->
            LET result1 == Call(p.kids[1], src)
            IN  \/ ReadsFailure(p.kids[1], src)
                \/ /\ result1.status = "Failure"
                   /\ ReadsFailure(p.kids[2], src)
      [] p.fn = "many"       -> LoopReads(p.kids[1], src)
      [] p.fn = "many1"      -> LoopReads(p.kids[1], src)
      \* 255-256: result1.rest is read whatever result1's status is
      [] p.fn = "takeLeft"   ->
            LET result1 == Call(p.kids[1], src)
            IN  \/ ReadsFailure(p.kids[1], src)
                \/ result1.status = "Failure"
                \/ /\ result1.status = "Success"
                   /\ ReadsFailure(p.kids[1], result1.rest)
      \* 264-269: every read is inside `if (result.isSuccess())`
      [] p.fn = "mapTo"      -> ReadsFailure(p.kids[1], src)
      [] p.fn = "refParser"  -> ReadsFailure(expression, src)

RECURSIVE Uses(_, _)
\* the closure p holds, at any depth, a lambda of the combinator fn
Uses(p, fn) == p.fn = fn \/ \E i \in 1..Len(p.kids) : Uses(p.kids[i], fn)

-----------------------------------------------------------------------------
(* Properties                                                              *)

Done == pc = "done"

Returned == pc = "done" /\ Returns(result)

\* The loop run pass by pass and the loop run in one go end alike.
StepwiseAgrees ==
    Done /\ parser.fn \in {"many", "many1"} => result = Call(parser, source)

\* What the vector ps, applied in order from src on, comes to: the first
\* Result that is no Success, or the matches concatenated and the last rest.
RECURSIVE InOrder(_, _, _)
InOrder(ps, i, src) ==
    LET r == Call(ps[i], src)
    IN  IF r.status # "Success" \/ i = Len(ps)
        THEN r
        ELSE LET tail == InOrder(ps, i + 1, r.rest)
             IN  IF tail.status # "Success"
                 THEN tail
                 ELSE [tail EXCEPT !.matched = r.matched \o @]

\* C1: sequence(ps) succeeds iff every parser of ps succeeds in turn on what
\* the one before it left; then matched is the matches concatenated and rest
\* is the last parser's rest; otherwise the Result is the first failure itself.
SequenceInOrder ==
    Returned /\ parsers # <<>> /\ parser = sequence(parsers) =>
        LET want == InOrder(parsers, 1, source)
        IN  /\ result.status = want.status
            /\ isSuccess(want) => result.matched = want.matched /\ result.rest = want.rest
            /\ isFailure(want) => result = want

SequenceInOrderWitness ==
    /\ Returned /\ Len(parsers) = 3 /\ parser = sequence(parsers)
    /\ isSuccess(result)
    /\ Len(Call(parsers[1], source).matched) > 0
    /\ Len(result.matched) > Len(Call(parsers[1], source).matched)

\* C2: choice(<<p1, p2>>) is p1's Result when p1 succeeds, whatever p2 would
\* do, and p2's Result on the same source when p1 fails.
ChoiceFirstWins ==
    Returned /\ Len(parsers) = 2 /\ parser = choice(parsers) =>
        LET result1 == Call(parsers[1], source)
            result2 == Call(parsers[2], source)
        IN  /\ isSuccess(result1) => result = result1
            /\ isFailure(result1) => result = result2

ChoiceFirstWinsWitness ==
    /\ Returned /\ Len(parsers) = 2 /\ parser = choice(parsers)
    /\ LET result1 == Call(parsers[1], source)
           result2 == Call(parsers[2], source)
       IN  /\ isSuccess(result1) /\ isSuccess(result2)
           /\ Len(result2.matched) > Len(result1.matched)
           /\ result = result1

\* C3: many(p) never returns a Failure; when p fails at once it returns a
\* Success that matched nothing and whose rest is the source.
ManyNeverFails ==
    Returned /\ parser.fn = "many" =>
        /\ isSuccess(result)
        /\ isFailure(Call(parser.kids[1], source)) =>
               result.matched = <<>> /\ result.rest = source

ManyNeverFailsWitness ==
    /\ Returned /\ parser.fn = "many"
    /\ isFailure(Call(parser.kids[1], source))
    /\ source # <<>>
    /\ result = success(<<>>, source)

\* The Results of p applied again and again from src on, up to its first
\* failure (or to the first application that leaves the text as it was).
RECURSIVE Applications(_, _)
Applications(p, src) ==
    LET r == Call(p, src)
    IN  IF r.status # "Success" \/ r.rest = src
        THEN <<r>>
        ELSE <<r>> \o Applications(p, r.rest)

RECURSIVE Matches(_, _)
Matches(rs, n) == IF n = 0 THEN <<>> ELSE Matches(rs, n - 1) \o rs[n].matched

\* C4: many1(p) returns a Failure iff p's first application fails, and then
\* that failure; otherwise a Success whose matched is the matches of the one
\* or more successful applications and whose rest is where p first failed.
Many1FailsIffFirstFails ==
    Returned /\ parser.fn = "many1" =>
        LET rs == Applications(parser.kids[1], source)
            n  == Len(rs) - 1
        IN  /\ isFailure(result) <=> isFailure(rs[1])
            /\ isFailure(rs[1]) => result = rs[1]
            /\ isSuccess(rs[1]) =>
                   /\ n >= 1
                   /\ isFailure(rs[n + 1])
                   /\ result.matched = Matches(rs, n)
                   /\ result.rest = rs[n].rest

Many1FailsIffFirstFailsWitness ==
    /\ Returned /\ parser.fn = "many1"
    /\ isSuccess(result)
    /\ Len(Applications(parser.kids[1], source)) >= 3
    /\ result.rest # <<>>

\* C5: in every Success, matched is a prefix of the source and rest is what
\* follows it.
MatchedIsPrefix ==
    Returned /\ isSuccess(result) => result.matched \o result.rest = source

\* C6: mapTo(p, name) hands on p's failure; on p's success it keeps matched
\* and rest and holds one leaf {name: matched}, nothing (nothing matched), or
\* one node {name: p.results} with p's nodes below it only.
MapToLabels ==
    Returned /\ parser.fn = "mapTo" =>
        LET r == Call(parser.kids[1], source)
        IN  /\ isFailure(r) => result = r
            /\ isSuccess(r) =>
                   /\ isSuccess(result)
                   /\ result.matched = r.matched
                   /\ result.rest = r.rest
                   /\ r.results = <<>> /\ r.matched # <<>> =>
                          result.results = <<Leaf(parser.name, r.matched)>>
                   /\ r.results = <<>> /\ r.matched = <<>> =>
                          result.results = <<>>
                   /\ r.results # <<>> =>
                          result.results = <<Node(parser.name, r.results)>>

MapToLabelsWitness ==
    /\ Returned /\ parser.fn = "mapTo"
    /\ Len(Call(parser.kids[1], source).results) > 0
    /\ result.results[1].index = 1

\* R := "(" R ")" | "a"
Rule == choice(<<parenExp, parseChar("a")>>)

\* C7: with the slot defined as the rule R after refParser was called, R
\* applied to n "(", an "a" and n ")" matches the whole text.
RecursiveRuleMatches ==
    /\ Done /\ parser = Rule /\ expression = Rule
    /\ \E n \in 0..MaxNest : source = Nested(n)
    => result = success(source, <<>>)

RecursiveRuleMatchesWitness ==
    /\ Returned /\ parser = Rule /\ expression = Rule
    /\ source = <<"(", "(", "a", ")", ")">>
    /\ result.matched = source

\* C8: no call reads matched, rest or results of a Failure.
NoFailureRead == Done => ~ReadsFailure(parser, source)

\* C9: many(p) and many1(p) return when p returns on every input.
LoopTerminates ==
    (/\ pc = "call"
     /\ \A src \in Inputs : Returns(Call(parser.kids[1], src)))
        ~> Done

RECURSIVE WellFormed(_)
WellFormed(nodes) ==
    \A i \in 1..Len(nodes) :
        IF nodes[i].index = 0
        THEN nodes[i].text # <<>>
        ELSE nodes[i].children # <<>> /\ WellFormed(nodes[i].children)

\* C10: in every Success each leaf of the node tree holds text and each
\* structured node holds a child, at every depth.
TreeWellFormed == Returned /\ isSuccess(result) => WellFormed(result.results)

TreeWellFormedWitness ==
    /\ Returned /\ isSuccess(result)
    /\ Len(result.results) >= 2
    /\ result.results[2].name = "item"
    /\ result.results[2].index = 1
    /\ result.results[2].children[1].index = 0

=============================================================================
